---- MODULE Spec2Model ----
(***************************************************************************)
(* Model of GTG.py: a genetic algorithm that composes a guitar melody.     *)
(* A gene is a fretboard position <<string, fret>>, a chromosome is a      *)
(* sequence of genes, a population is a list of chromosome objects.        *)
(* Python lists are objects: the model keeps them in a heap indexed by     *)
(* object identity, so that sharing and in-place modification are visible. *)
(***************************************************************************)
EXTENDS Integers, Sequences, FiniteSets, TLC

VARIABLES
    MELODY_LENGTH,    \* module global (GTG.py:11)
    POPULATION_SIZE,  \* module global (GTG.py:14)
    MUTATION_RATE,    \* module global (GTG.py:15), in units of 1/RateScale
    SCALE_C_MAJOR,    \* module global (GTG.py:23)
    pc,               \* position of genetic_algorithm()
    gen,              \* loop variable of genetic_algorithm()
    heap,             \* the list objects created so far: identity -> contents
    population,       \* list of chromosome identities
    scored_pop,       \* list of <<chromosome identity, score>>
    top_performers,   \* list of chromosome identities (the breeding pool)
    new_pop,          \* list of chromosome identities
    child,            \* identity returned by crossover(), 0 when none pending
    best_song,        \* identity returned by genetic_algorithm(), 0 before
    error,            \* name of the exception that ended the run, "" if none
    mutations,        \* number of mutations that took place in this run
    call              \* one direct call of crossover / mutate / fitness_function

vars == <<MELODY_LENGTH, POPULATION_SIZE, MUTATION_RATE, SCALE_C_MAJOR, pc, gen,
          heap, population, scored_pop, top_performers, new_pop, child, best_song, error,
          mutations, call>>

config == <<MELODY_LENGTH, POPULATION_SIZE, MUTATION_RATE, SCALE_C_MAJOR>>

---------------------------------------------------------------------------
(* 1. CONFIGURATION                                                        *)

TUNING == <<40, 45, 50, 55, 59, 64>>
NUM_STRINGS == 6

\* The program runs with MAX_FRET = 15, MELODY_LENGTH = 30,
\* POPULATION_SIZE = 100 and NUM_GENERATIONS = 200; the model explores the
\* same code on a scaled-down configuration.
MAX_FRET == 1
ModelMelodyLength == 2
ModelPopulationSize == 4
NUM_GENERATIONS == 2

\* MUTATION_RATE = 0.1 is kept as the fraction 1 / 10.
RateScale == 10
ProgramMutationRate == 1

\* random.random() is sampled at k / UnitSamples, k in 0 .. UnitSamples - 1.
UnitSamples == 4
\* Number of mutations explored in one run of genetic_algorithm().
MaxMutations == 1
\* Number of seeds of the pseudorandom source explored for the initial population.
MaxSeed == 3
\* Number of outcomes of generate_random_gene() explored for a mutation in a run.
MaxGeneSample == 3

C_MAJOR == {0, 2, 4, 5, 7, 9, 11}
LogInterval == 50

---------------------------------------------------------------------------
(* helpers for Python lists                                                *)

Max(a, b) == IF a >= b THEN a ELSE b
Min(a, b) == IF a <= b THEN a ELSE b
Abs(x) == IF x < 0 THEN -x ELSE x

\* seq[:k] for k >= 0
Prefix(seq, k) == SubSeq(seq, 1, Min(k, Len(seq)))
\* seq[:k] for any integer k: a negative k counts from the end
SliceTo(seq, k) == IF k >= 0 THEN Prefix(seq, k) ELSE Prefix(seq, Max(Len(seq) + k, 0))
\* seq[k:] for k >= 0
Suffix(seq, k) == SubSeq(seq, k + 1, Len(seq))

\* random.randint(lo, hi): the set of values it can return (empty: ValueError)
randint(lo, hi) == lo .. hi

---------------------------------------------------------------------------
(* 2. GENERATION                                                           *)

\* generate_random_gene() with the fret drawn from one fret too many
generate_random_gene_wide ==
    {<<s, f>> : s \in randint(0, NUM_STRINGS - 1), f \in randint(0, MAX_FRET + 1)}

\* the values generate_random_gene() can return
generate_random_gene ==
    {<<s, f>> : s \in randint(0, NUM_STRINGS - 1), f \in randint(0, MAX_FRET)}

\* the values generate_individual() can return
generate_individual == [1 .. Max(MELODY_LENGTH, 0) -> generate_random_gene]

---------------------------------------------------------------------------
(* 3. FITNESS FUNCTION                                                     *)

get_note_midi(string_idx, fret) == TUNING[string_idx + 1] + fret

midi_notes(chromosome) ==
    [i \in 1 .. Len(chromosome) |-> get_note_midi(chromosome[i][1], chromosome[i][2])]

\* the harmony term with the bonus test written "chroma == 0 or 7", always true
HarmonyTerm_truthy(midi) ==
    LET chroma == midi % 12 IN
    IF chroma \in SCALE_C_MAJOR THEN 10 + 5 ELSE -50

\* CRITERION 1: harmony contribution of one note
HarmonyTerm(midi) ==
    LET chroma == midi % 12 IN
    IF chroma \in SCALE_C_MAJOR
    THEN 10 + (IF chroma = 0 \/ chroma = 7 THEN 5 ELSE 0)
    ELSE -50

\* CRITERION 2: physical distance between two consecutive positions
TechniqueTerm(prev, cur) ==
    LET fret_dist == Abs(cur[2] - prev[2])
        string_dist == Abs(cur[1] - prev[1])
    IN -((fret_dist * 2) + (string_dist * 5))

\* CRITERION 3: melodic interval between two consecutive notes
ContourTerm(prev_midi, current_midi) ==
    LET interval == Abs(current_midi - prev_midi) IN
    IF interval > 12 THEN -20
    ELSE IF interval = 0 THEN -5
    ELSE 0

\* final bonus when the melody resolves to the tonic
ResolutionBonus(last_midi) == IF last_midi % 12 = 0 THEN 30 ELSE 0

\* score after the first n iterations of the loop over the notes
RECURSIVE LoopScore(_, _)
LoopScore(chromosome, n) ==
    IF n = 0 THEN 0
    ELSE LET notes == midi_notes(chromosome) IN
         LoopScore(chromosome, n - 1)
         + HarmonyTerm(notes[n])
         + (IF n > 1
            THEN TechniqueTerm(chromosome[n - 1], chromosome[n])
                 + ContourTerm(notes[n - 1], notes[n])
            ELSE 0)

\* fitness_function with the final bonus taken from the first note, midi_notes[0]
fitness_function_first(chromosome) ==
    LoopScore(chromosome, Len(chromosome))
    + ResolutionBonus(midi_notes(chromosome)[1])

\* fitness_function(chromosome); midi_notes[-1] raises IndexError on an empty list
FitnessRaises(chromosome) == Len(chromosome) = 0

fitness_function(chromosome) ==
    LoopScore(chromosome, Len(chromosome))
    + ResolutionBonus(midi_notes(chromosome)[Len(chromosome)])

---------------------------------------------------------------------------
(* 4. GENETIC ALGORITHM CORE                                               *)

\* crossover that loses the gene at the split: p1[:split] + p2[split + 1:]
crossover_dropping(p1, p2, split) == Prefix(p1, split) \o Suffix(p2, split + 1)

\* crossover with the parents exchanged: p2[:split] + p1[split:]
crossover_swapped(p1, p2, split) == Prefix(p2, split) \o Suffix(p1, split)

\* crossover(p1, p2) when random.randint returned split
crossover(p1, p2, split) == Prefix(p1, split) \o Suffix(p2, split)

\* random.random() < MUTATION_RATE when random.random() returned r / UnitSamples
MutationDrawn(r) == r * RateScale < MUTATION_RATE * UnitSamples

\* mutate that counts the position from the end of the list: mutant[-idx - 1]
mutate_from_end(chromosome, r, idx, gene) ==
    IF MutationDrawn(r)
    THEN [chromosome EXCEPT ![Len(chromosome) - idx] = gene]
    ELSE chromosome

\* mutate(chromosome) when random.random() returned r / UnitSamples,
\* random.randint returned idx and generate_random_gene() returned gene
mutate(chromosome, r, idx, gene) ==
    IF MutationDrawn(r)
    THEN [chromosome EXCEPT ![idx + 1] = gene]
    ELSE chromosome

\* a new list object holding value: the heap after it, and its identity
NewList(h, value) == [heap |-> Append(h, value), ref |-> Len(h) + 1]

\* crossover(): p1[:split] + p2[split:] builds a new list
crossover_obj(h, p1, p2, split) == NewList(h, crossover(h[p1], h[p2], split))

\* mutate() without the copy: mutant = chromosome, changed in place and returned
mutate_obj_in_place(h, chromosome, r, idx, gene) ==
    [heap |-> [h EXCEPT ![chromosome] = mutate(h[chromosome], r, idx, gene)],
     ref |-> chromosome]

\* mutate(): mutant = list(chromosome) copies, the copy is changed and returned
mutate_obj(h, chromosome, r, idx, gene) ==
    NewList(h, mutate(h[chromosome], r, idx, gene))

Score(h, id) == fitness_function(h[id])

\* [(ind, fitness_function(ind)) for ind in pop]
Scored(h, pop) == [i \in 1 .. Len(pop) |-> <<pop[i], Score(h, pop[i])>>]

\* the sort without reverse=True: stable, lowest first
SortedAscending(scored) ==
    LET place(i) ==
            1 + Cardinality({j \in 1 .. Len(scored) : scored[j][2] < scored[i][2]})
              + Cardinality({j \in 1 .. (i - 1) : scored[j][2] = scored[i][2]})
    IN [k \in 1 .. Len(scored) |->
           scored[CHOOSE i \in 1 .. Len(scored) : place(i) = k]]

\* scored.sort(key=lambda x: x[1], reverse=True): stable, highest first.
\* Rank(scored, i) is the place the i-th pair takes.
Rank(scored, i) ==
    1 + Cardinality({j \in 1 .. Len(scored) : scored[j][2] > scored[i][2]})
      + Cardinality({j \in 1 .. (i - 1) : scored[j][2] = scored[i][2]})

SortedByScore(scored) ==
    [k \in 1 .. Len(scored) |->
        scored[CHOOSE i \in 1 .. Len(scored) : Rank(scored, i) = k]]

\* int(POPULATION_SIZE * 0.3)
PoolSize == IF POPULATION_SIZE >= 0 THEN (POPULATION_SIZE * 3) \div 10
            ELSE -((-POPULATION_SIZE * 3) \div 10)

\* the first member returned instead of the best one: population[0]
FirstMember(scored) == scored[1][1]

\* max(population, key=fitness_function), the keys being in scored: the first
\* member with the highest key
MaxByFitness(scored) ==
    scored[CHOOSE i \in 1 .. Len(scored) :
             /\ \A j \in 1 .. Len(scored) : scored[j][2] <= scored[i][2]
             /\ \A j \in 1 .. (i - 1) : scored[j][2] < scored[i][2]][1]

\* The initial populations explored: the genes the pseudorandom source yields
\* for one seed, cut into POPULATION_SIZE individuals of MELODY_LENGTH genes.
GeneNumber(n) == <<n % NUM_STRINGS, (n \div NUM_STRINGS) % (MAX_FRET + 1)>>

SeededGene(seed, i, j) ==
    GeneNumber((seed * 7 + i * 5 + j * 3 + i * j) % (NUM_STRINGS * (MAX_FRET + 1)))

\* The outcomes of generate_random_gene() explored inside a run.
GeneSample ==
    {GeneNumber((k * 5) % (NUM_STRINGS * (MAX_FRET + 1))) : k \in 1 .. MaxGeneSample}

SeededPopulation(seed) ==
    [i \in 1 .. Max(POPULATION_SIZE, 0) |->
        [j \in 1 .. Max(MELODY_LENGTH, 0) |-> SeededGene(seed, i, j)]]

\* line 115: population = [generate_individual() for _ in range(POPULATION_SIZE)]
Populate ==
    /\ pc = "start"
    /\ \E seed \in 1 .. MaxSeed :
          /\ heap' = SeededPopulation(seed)
          /\ population' = [i \in 1 .. Len(heap') |-> i]
    /\ gen' = 0
    /\ pc' = IF 0 < NUM_GENERATIONS THEN "evaluate" ELSE "return"
    /\ UNCHANGED <<config, scored_pop, top_performers, new_pop, child, best_song,
                   error, mutations, call>>

\* line 119: scored_pop = [(ind, fitness_function(ind)) for ind in population]
Evaluate ==
    /\ pc = "evaluate"
    /\ IF \E i \in 1 .. Len(population) : FitnessRaises(heap[population[i]])
       THEN /\ pc' = "error"
            /\ error' = "IndexError"
            /\ UNCHANGED scored_pop
       ELSE /\ scored_pop' = Scored(heap, population)
            /\ pc' = "select"
            /\ UNCHANGED error
    /\ UNCHANGED <<config, gen, heap, population, top_performers, new_pop, child,
                   best_song, mutations, call>>

\* lines 121-134: sort, log the best score, select the pool, keep the elite
Select ==
    /\ pc = "select"
    /\ LET sorted == SortedByScore(scored_pop)
           pool == [i \in 1 .. Len(SliceTo(sorted, PoolSize)) |-> sorted[i][1]]
       IN IF \/ (gen % LogInterval = 0 /\ Len(scored_pop) = 0)
             \/ Len(SliceTo(scored_pop, PoolSize)) = 0
          THEN /\ pc' = "error"
               /\ error' = "IndexError"
               /\ UNCHANGED <<scored_pop, top_performers, new_pop>>
          ELSE /\ scored_pop' = sorted
               /\ top_performers' = pool
               /\ new_pop' = <<pool[1]>>
               /\ pc' = "breed"
               /\ UNCHANGED error
    /\ UNCHANGED <<config, gen, heap, population, child, best_song, mutations, call>>

\* lines 137-140: the loop test, the two parents, and crossover(parent1, parent2)
Crossover ==
    /\ pc = "breed"
    /\ Len(new_pop) < POPULATION_SIZE
    /\ \E i1 \in 1 .. Len(top_performers), i2 \in 1 .. Len(top_performers) :
          LET parent1 == top_performers[i1]
              parent2 == top_performers[i2]
              splits == randint(1, Len(heap[parent1]) - 1)
          IN IF splits = {}
             THEN /\ pc' = "error"
                  /\ error' = "ValueError"
                  /\ UNCHANGED <<heap, child>>
             ELSE \E split \in splits :
                     LET made == crossover_obj(heap, parent1, parent2, split) IN
                     /\ heap' = made.heap
                     /\ child' = made.ref
                     /\ pc' = "mutate"
                     /\ UNCHANGED error
    /\ UNCHANGED <<config, gen, population, scored_pop, top_performers, new_pop,
                   best_song, mutations, call>>

\* lines 140-141: mutate(child) and new_pop.append. The position and the new
\* gene are drawn only when random.random() fell below MUTATION_RATE. Once
\* MaxMutations mutations took place, only the draws that leave the child
\* unchanged are explored.
Mutate ==
    /\ pc = "mutate"
    /\ \E r \in 0 .. (UnitSamples - 1) :
          IF MutationDrawn(r)
          THEN /\ mutations < MaxMutations
               /\ \E idx \in randint(0, Len(heap[child]) - 1),
                     gene \in generate_random_gene \cap GeneSample :
                     LET made == mutate_obj(heap, child, r, idx, gene) IN
                     /\ heap' = made.heap
                     /\ new_pop' = Append(new_pop, made.ref)
               /\ mutations' = mutations + 1
          ELSE LET made == mutate_obj(heap, child, r, 0, <<0, 0>>) IN
               /\ heap' = made.heap
               /\ new_pop' = Append(new_pop, made.ref)
               /\ UNCHANGED mutations
    /\ child' = 0
    /\ pc' = "breed"
    /\ UNCHANGED <<config, gen, population, scored_pop, top_performers, best_song,
                   error, call>>

\* line 143 and the loop header: population = new_pop, next generation or leave
Replace ==
    /\ pc = "breed"
    /\ Len(new_pop) >= POPULATION_SIZE
    /\ population' = new_pop
    /\ gen' = gen + 1
    /\ pc' = IF gen + 1 < NUM_GENERATIONS THEN "evaluate" ELSE "return"
    /\ UNCHANGED <<config, heap, scored_pop, top_performers, new_pop, child,
                   best_song, error, mutations, call>>

\* line 145: max(population, key=fitness_function) computes the key of every member
Return ==
    /\ pc = "return"
    /\ IF Len(population) = 0
       THEN /\ pc' = "error"
            /\ error' = "ValueError"
            /\ UNCHANGED scored_pop
       ELSE IF \E i \in 1 .. Len(population) : FitnessRaises(heap[population[i]])
       THEN /\ pc' = "error"
            /\ error' = "IndexError"
            /\ UNCHANGED scored_pop
       ELSE /\ scored_pop' = Scored(heap, population)
            /\ pc' = "pick"
            /\ UNCHANGED error
    /\ UNCHANGED <<config, gen, heap, population, top_performers, new_pop, child,
                   best_song, mutations, call>>

\* line 145: and returns the first member whose key is the highest
Pick ==
    /\ pc = "pick"
    /\ best_song' = MaxByFitness(scored_pop)
    /\ pc' = "done"
    /\ UNCHANGED <<config, gen, heap, population, scored_pop, top_performers, new_pop,
                   child, error, mutations, call>>

---------------------------------------------------------------------------
(* State of a run of genetic_algorithm()                                   *)

NoCall == [op |-> "none"]

InitRun ==
    /\ pc = "start"
    /\ gen = 0
    /\ heap = <<>>
    /\ population = <<>>
    /\ scored_pop = <<>>
    /\ top_performers = <<>>
    /\ new_pop = <<>>
    /\ child = 0
    /\ best_song = 0
    /\ error = ""
    /\ mutations = 0
    /\ call = NoCall

\* the scaled-down configuration of the module globals
Init ==
    /\ MELODY_LENGTH = ModelMelodyLength
    /\ POPULATION_SIZE = ModelPopulationSize
    /\ MUTATION_RATE = ProgramMutationRate
    /\ SCALE_C_MAJOR = C_MAJOR
    /\ InitRun

Next ==
    Populate \/ Evaluate \/ Select \/ Crossover \/ Mutate \/ Replace \/ Return \/ Pick

Spec == Init /\ [][Next]_vars

\* genetic_algorithm() is sequential code that nothing suspends: a step that
\* can be taken is taken.
FairSpec == Spec /\ WF_vars(Next)

\* The same run when the module globals are edited to other values, the
\* malformed ones included: nothing in GTG.py inspects them before line 115.
InitCfg ==
    /\ MELODY_LENGTH \in {0, 1, ModelMelodyLength}
    /\ POPULATION_SIZE \in {0, ModelPopulationSize}
    /\ MUTATION_RATE = ProgramMutationRate
    /\ SCALE_C_MAJOR \in {{}, C_MAJOR}
    /\ InitRun

SpecCfg == InitCfg /\ [][Next]_vars

---------------------------------------------------------------------------
(* Direct calls of crossover, mutate and fitness_function                  *)

\* lists of n genes taken from the set genes
Chromosomes(genes, n) == [1 .. n -> genes]

ReplaceLast(chromosome, gene) == [chromosome EXCEPT ![Len(chromosome)] = gene]

PendingCall(op, a, b) ==
    [op |-> op, done |-> FALSE, a |-> a, b |-> b, draw |-> <<>>, ret |-> <<>>,
     raised |-> ""]

\* crossover of two parents of one length, 1 .. MELODY_LENGTH
CrossoverCalls ==
    UNION {{PendingCall("crossover", a, b) :
               a \in Chromosomes(GeneSample, n), b \in Chromosomes(GeneSample, n)} :
           n \in 1 .. MELODY_LENGTH}

\* mutate of a melody of 1 .. MELODY_LENGTH notes
MutateCalls ==
    UNION {{PendingCall("mutate", a, <<>>) : a \in Chromosomes(GeneSample, n)} :
           n \in 1 .. MELODY_LENGTH}

\* fitness_function of two melodies that differ at most in the last position
FitnessCalls(n) ==
    {PendingCall("fitness", a, ReplaceLast(a, gene)) :
        a \in Chromosomes(generate_random_gene, n), gene \in generate_random_gene}

InitOps ==
    /\ MELODY_LENGTH = ModelMelodyLength
    /\ POPULATION_SIZE = ModelPopulationSize
    /\ SCALE_C_MAJOR = C_MAJOR
    /\ pc = "call"
    /\ gen = 0
    /\ heap = <<>>
    /\ population = <<>>
    /\ scored_pop = <<>>
    /\ top_performers = <<>>
    /\ new_pop = <<>>
    /\ child = 0
    /\ best_song = 0
    /\ error = ""
    /\ mutations = 0
    /\ \/ /\ call \in MutateCalls
          /\ MUTATION_RATE \in {0, ProgramMutationRate, RateScale}
       \/ /\ call \in CrossoverCalls
          /\ MUTATION_RATE = ProgramMutationRate
       \/ /\ \E n \in 1 .. MELODY_LENGTH : call \in FitnessCalls(n)
          /\ MUTATION_RATE = ProgramMutationRate

run == <<pc, gen, heap, population, scored_pop, top_performers, new_pop, child, best_song,
         error, mutations>>

\* crossover(call.a, call.b)
CallCrossover ==
    /\ call.op = "crossover"
    /\ ~call.done
    /\ LET splits == randint(1, Len(call.a) - 1) IN
       IF splits = {}
       THEN call' = [call EXCEPT !.done = TRUE, !.raised = "ValueError"]
       ELSE \E split \in splits :
               call' = [call EXCEPT !.done = TRUE, !.draw = <<split>>,
                                    !.ret = crossover(call.a, call.b, split)]
    /\ UNCHANGED <<config, run>>

\* mutate(call.a)
CallMutate ==
    /\ call.op = "mutate"
    /\ ~call.done
    /\ \E r \in 0 .. (UnitSamples - 1) :
          IF MutationDrawn(r)
          THEN \E idx \in randint(0, Len(call.a) - 1), gene \in generate_random_gene :
                  call' = [call EXCEPT !.done = TRUE, !.draw = <<TRUE, idx, gene>>,
                                       !.ret = mutate(call.a, r, idx, gene)]
          ELSE call' = [call EXCEPT !.done = TRUE, !.draw = <<FALSE>>,
                                    !.ret = mutate(call.a, r, 0, <<0, 0>>)]
    /\ UNCHANGED <<config, run>>

\* fitness_function(call.a) and fitness_function(call.b)
CallFitness ==
    /\ call.op = "fitness"
    /\ ~call.done
    /\ call' = [call EXCEPT !.done = TRUE,
                            !.ret = <<fitness_function(call.a), fitness_function(call.b)>>]
    /\ UNCHANGED <<config, run>>

NextOps == CallCrossover \/ CallMutate \/ CallFitness

SpecOps == InitOps /\ [][NextOps]_vars

---------------------------------------------------------------------------
(* Properties                                                              *)

InBounds(gene) == gene[1] \in 0 .. (NUM_STRINGS - 1) /\ gene[2] \in 0 .. MAX_FRET

\* the highest score among the members of pop
BestScore(h, pop) ==
    LET scores == {Score(h, pop[i]) : i \in 1 .. Len(pop)} IN
    CHOOSE m \in scores : \A n \in scores : n <= m

Distinct(seq) == \A i, j \in 1 .. Len(seq) : i # j => seq[i] # seq[j]

C2_PopulationShape ==
    pc \in {"evaluate", "select", "breed", "mutate", "return", "pick", "done"} =>
        /\ Len(population) = POPULATION_SIZE
        /\ \A i \in 1 .. Len(population) : Len(heap[population[i]]) = MELODY_LENGTH

\* a population built by replacement that holds a mutated child
C2_Witness ==
    /\ pc \in {"evaluate", "return"}
    /\ gen >= 1
    /\ \E i \in 1 .. Len(population) : heap[population[i]] # heap[population[1]]

\* C3: for parents of one length L >= 2, the split drawn lies in 1 .. L - 1 and
\* the child has length L, equals the first parent before the split and the
\* second parent from the split on.
C3_CrossoverPrefixSuffix ==
    (call.op = "crossover" /\ call.done /\ Len(call.a) >= 2) =>
        /\ call.raised = ""
        /\ LET split == call.draw[1] IN
           /\ split \in 1 .. (Len(call.a) - 1)
           /\ Len(call.ret) = Len(call.a)
           /\ \A i \in 1 .. split : call.ret[i] = call.a[i]
           /\ \A i \in (split + 1) .. Len(call.a) : call.ret[i] = call.b[i]

\* a child of two parents that differ in every position
C3_Witness ==
    /\ call.op = "crossover"
    /\ call.done
    /\ Len(call.a) >= 2
    /\ \A i \in 1 .. Len(call.a) : call.a[i] # call.b[i]
    /\ call.ret # call.a
    /\ call.ret # call.b

\* the positions where two lists of one length differ
Changed(a, b) == {i \in 1 .. Len(a) : a[i] # b[i]}

\* C4: the result of mutate has the length of its input, differs from it in
\* at most one position, and a changed position is within the fretboard.
C4_MutateAtMostOne ==
    (call.op = "mutate" /\ call.done) =>
        /\ Len(call.ret) = Len(call.a)
        /\ Cardinality(Changed(call.a, call.ret)) <= 1
        /\ \A i \in Changed(call.a, call.ret) : InBounds(call.ret[i])

\* a mutation under the program's rate that changed one position
C4_Witness ==
    /\ call.op = "mutate"
    /\ call.done
    /\ MUTATION_RATE = ProgramMutationRate
    /\ Cardinality(Changed(call.a, call.ret)) = 1

Chroma(gene) == get_note_midi(gene[1], gene[2]) % 12

LastGene(chromosome) == chromosome[Len(chromosome)]

\* what the last pair of notes costs: 2 per fret and 5 per string of distance,
\* 20 for more than an octave, 5 for a repeated note; nothing for a single note
LastPairPenalty(chromosome) ==
    IF Len(chromosome) < 2 THEN 0
    ELSE LET prev == chromosome[Len(chromosome) - 1]
             last == LastGene(chromosome)
             interval == Abs(get_note_midi(last[1], last[2])
                             - get_note_midi(prev[1], prev[2]))
         IN 2 * Abs(last[2] - prev[2]) + 5 * Abs(last[1] - prev[1])
            + (IF interval > 12 THEN 20 ELSE IF interval = 0 THEN 5 ELSE 0)

\* two scored melodies, equal but for the last position, the first ending on
\* the tonic and the second on another chroma of the scale
TonicAgainstInKey ==
    /\ call.op = "fitness"
    /\ call.done
    /\ Len(call.a) = Len(call.b)
    /\ \A i \in 1 .. (Len(call.a) - 1) : call.a[i] = call.b[i]
    /\ Chroma(LastGene(call.a)) = 0
    /\ Chroma(LastGene(call.b)) \in SCALE_C_MAJOR \ {0}

ScenarioA ==
    /\ call.op = "fitness"
    /\ call.done
    /\ call.a = << <<5, 0>> >>
    /\ call.b = << <<5, 1>> >>

\* C6 as stated: [(5,0)] scores strictly higher than [(5,1)].
C6_StrictlyHigher == ScenarioA => call.ret[1] > call.ret[2]

\* C6 amended: [(5,0)] and [(5,1)] both score 10, the reward of a note of the
\* scale that is neither tonic nor dominant.
C6_BothScoreTen == ScenarioA => (call.ret[1] = 10 /\ call.ret[2] = 10)

C6_Witness == ScenarioA /\ call.ret[1] = call.ret[2]

\* L < 2, N < 1 or an empty pitch-class set
Malformed ==
    MELODY_LENGTH < 2 \/ POPULATION_SIZE < 1 \/ SCALE_C_MAJOR = {}

\* C7: a run with a malformed configuration fails before a population is
\* created: it never stands at the head of a generation, inside one, or at the
\* return, and it never returns.
C7_FailsBeforePopulation ==
    Malformed =>
        /\ pc \notin {"evaluate", "select", "breed", "mutate", "return", "pick", "done"}
        /\ (pc = "error" => heap = <<>> /\ gen = 0 /\ top_performers = <<>>)

AlwaysMutate == MUTATION_RATE = RateScale

\* C9 as stated: with probability 1 the result differs from the input at the
\* chosen position and nowhere else.
C9_AlwaysDiffers ==
    (call.op = "mutate" /\ call.done /\ AlwaysMutate) =>
        /\ call.draw[1]
        /\ Changed(call.a, call.ret) = {call.draw[2] + 1}

\* C9 amended: with probability 1 the chosen position holds the freshly drawn
\* position, which is within the fretboard and may be the one already there,
\* and every other position equals the input.
C9_ReplacesChosen ==
    (call.op = "mutate" /\ call.done /\ AlwaysMutate) =>
        /\ call.draw[1]
        /\ Len(call.ret) = Len(call.a)
        /\ call.ret[call.draw[2] + 1] = call.draw[3]
        /\ InBounds(call.draw[3])
        /\ Changed(call.a, call.ret) \subseteq {call.draw[2] + 1}
        /\ (call.draw[3] # call.a[call.draw[2] + 1]
              => Changed(call.a, call.ret) = {call.draw[2] + 1})

\* with probability 1, a mutation of a melody of two or more notes that
\* changed the chosen position
C9_Witness ==
    /\ call.op = "mutate"
    /\ call.done
    /\ AlwaysMutate
    /\ Len(call.a) >= 2
    /\ Changed(call.a, call.ret) = {call.draw[2] + 1}

\* C10: no list object stands in two slots of one population, and no step
\* (crossover, mutate, or any other) changes the contents of a list object
\* that exists.
C10_NoAliasNoInPlaceChange ==
    /\ [](Distinct(population) /\ Distinct(new_pop))
    /\ [][\A id \in 1 .. Len(heap) : heap'[id] = heap[id]]_vars

\* mutate has returned a child that differs from the object it was given
C10_Witness ==
    /\ pc = "breed"
    /\ mutations = 1
    /\ Len(new_pop) >= 2
    /\ Len(heap) >= 2
    /\ heap[Len(heap)] # heap[Len(heap) - 1]

====
